---- MODULE Spec2Model ----
(***************************************************************************)
(* vite-plugin-entry-dag: the generateBundle hook of src/src/index.ts      *)
(* (node/edge graph) as a state machine.  Module identifiers are strings,  *)
(* modelled as sequences of one-character strings, so that the identifier  *)
(* conversions (query stripping, path.relative, path.extname, lower-casing,*)
(* the edge key) are computed as the code computes them.                   *)
(***************************************************************************)
EXTENDS Integers, Sequences, FiniteSets, TLC

(***************************************************************************)
(* Bounds of the model.                                                    *)
(***************************************************************************)
\* longest options.entries list drawn in Init
MaxEntries == 2
\* total number of import-list items the module-info oracle hands out
MaxImports == 2
\* number of generateBundle calls on one plugin instance
MaxRuns == 2

(***************************************************************************)
(* Strings.                                                                *)
(***************************************************************************)
\* the character '\0'
NUL == "NUL"

Str_proj == <<"/", "p", "r", "o", "j">>
Str_node_modules == <<"n", "o", "d", "e", "_", "m", "o", "d", "u", "l", "e", "s">>
Str_static == <<"s", "t", "a", "t", "i", "c">>
Str_dynamic == <<"d", "y", "n", "a", "m", "i", "c">>

UpperChars == <<"A", "B", "C", "D", "E", "F", "G", "H", "I", "J", "K", "L", "M",
                "N", "O", "P", "Q", "R", "S", "T", "U", "V", "W", "X", "Y", "Z">>
LowerChars == <<"a", "b", "c", "d", "e", "f", "g", "h", "i", "j", "k", "l", "m",
                "n", "o", "p", "q", "r", "s", "t", "u", "v", "w", "x", "y", "z">>

\* String.prototype.toLowerCase
toLowerCase(s) ==
    [i \in 1..Len(s) |->
        IF \E k \in 1..Len(UpperChars) : UpperChars[k] = s[i]
        THEN LowerChars[CHOOSE k \in 1..Len(UpperChars) : UpperChars[k] = s[i]]
        ELSE s[i]]

\* String.prototype.trim (blanks only)
RECURSIVE trimStart(_)
trimStart(s) == IF s # <<>> /\ Head(s) = " " THEN trimStart(Tail(s)) ELSE s
RECURSIVE trimEnd(_)
trimEnd(s) ==
    IF s # <<>> /\ s[Len(s)] = " " THEN trimEnd(SubSeq(s, 1, Len(s) - 1)) ELSE s
trim(s) == trimEnd(trimStart(s))

\* String.prototype.startsWith / includes
startsWith(s, p) == Len(s) >= Len(p) /\ SubSeq(s, 1, Len(p)) = p
includes(s, p) ==
    \E i \in 1..(Len(s) - Len(p) + 1) : SubSeq(s, i, i + Len(p) - 1) = p

\* indices of the character c in s
IndicesOf(s, c) == {i \in 1..Len(s) : s[i] = c}
Min(S) == CHOOSE x \in S : \A y \in S : x <= y
Max(S) == CHOOSE x \in S : \A y \in S : x >= y

\* s.split(c): the pieces of s between the occurrences of c
RECURSIVE split(_, _)
split(s, c) ==
    IF IndicesOf(s, c) = {} THEN <<s>>
    ELSE LET i == Min(IndicesOf(s, c))
         IN <<SubSeq(s, 1, i - 1)>> \o split(SubSeq(s, i + 1, Len(s)), c)

\* parts.join(c)
RECURSIVE join(_, _)
join(parts, c) ==
    IF parts = <<>> THEN <<>>
    ELSE IF Len(parts) = 1 THEN parts[1]
    ELSE parts[1] \o <<c>> \o join(Tail(parts), c)

(***************************************************************************)
(* Node's path module (POSIX).                                             *)
(***************************************************************************)
\* process.cwd(): vite is run from the project directory
Cwd == Str_proj

\* the segments of a path after "." and ".." and empty segments are resolved
RECURSIVE normalizeSegments(_, _)
normalizeSegments(segs, acc) ==
    IF segs = <<>> THEN acc
    ELSE LET s == Head(segs)
         IN IF s = <<>> \/ s = <<".">> THEN normalizeSegments(Tail(segs), acc)
            ELSE IF s = <<".", ".">>
                 THEN normalizeSegments(Tail(segs),
                          IF acc = <<>> THEN acc ELSE SubSeq(acc, 1, Len(acc) - 1))
                 ELSE normalizeSegments(Tail(segs), Append(acc, s))

\* path.resolve(p), as the list of segments of the absolute path
resolveSegments(p) ==
    IF startsWith(p, <<"/">>) THEN normalizeSegments(split(p, "/"), <<>>)
    ELSE normalizeSegments(split(Cwd, "/") \o split(p, "/"), <<>>)

\* length of the longest common prefix of two segment lists
RECURSIVE commonLen(_, _)
commonLen(a, b) ==
    IF a = <<>> \/ b = <<>> \/ Head(a) # Head(b) THEN 0
    ELSE 1 + commonLen(Tail(a), Tail(b))

\* path.relative(from, to)
pathRelative(from, to) ==
    LET f == resolveSegments(from)
        t == resolveSegments(to)
        n == commonLen(f, t)
        ups == [i \in 1..(Len(f) - n) |-> <<".", ".">>]
    IN join(ups \o SubSeq(t, n + 1, Len(t)), "/")

\* path.extname(p)
extname(p) ==
    LET noTrail == IF p # <<>> /\ p[Len(p)] = "/" /\ Len(p) > 1
                   THEN SubSeq(p, 1, Len(p) - 1) ELSE p
        slashes == IndicesOf(noTrail, "/")
        base == IF slashes = {} THEN noTrail
                ELSE SubSeq(noTrail, Max(slashes) + 1, Len(noTrail))
        dots == IndicesOf(base, ".")
    IN IF dots = {} \/ Max(dots) = 1 \/ base = <<".", ".">> THEN <<>>
       ELSE SubSeq(base, Max(dots), Len(base))

(***************************************************************************)
(* The module identifiers of the builds that are checked.                  *)
(***************************************************************************)
\* '/proj/src/main.ts'
Id_main ==
    <<"/", "p", "r", "o", "j", "/", "s", "r", "c", "/", "m", "a", "i", "n", ".", "t", "s">>
\* '/proj/src/a.ts'
Id_a ==
    <<"/", "p", "r", "o", "j", "/", "s", "r", "c", "/", "a", ".", "t", "s">>
\* '/proj/src/b.ts'
Id_b ==
    <<"/", "p", "r", "o", "j", "/", "s", "r", "c", "/", "b", ".", "t", "s">>
\* '/proj/src/a.ts?v'
Id_aQuery ==
    <<"/", "p", "r", "o", "j", "/", "s", "r", "c", "/", "a", ".", "t", "s", "?", "v">>
\* '/proj/src/a.ts|src/a.ts'
Id_pipe ==
    <<"/", "p", "r", "o", "j", "/", "s", "r", "c", "/", "a", ".", "t", "s", "|", "s", "r", "c", "/", "a", ".", "t", "s">>
\* '/proj/src/s.css'
Id_css ==
    <<"/", "p", "r", "o", "j", "/", "s", "r", "c", "/", "s", ".", "c", "s", "s">>
\* '/proj/src/U.TS'
Id_upper ==
    <<"/", "p", "r", "o", "j", "/", "s", "r", "c", "/", "U", ".", "T", "S">>
\* '/proj/node_modules/d.ts'
Id_dep ==
    <<"/", "p", "r", "o", "j", "/", "n", "o", "d", "e", "_", "m", "o", "d", "u", "l", "e", "s", "/", "d", ".", "t", "s">>
\* '\0v.ts'
Id_virtual ==
    <<NUL, "v", ".", "t", "s">>
\* ''
Id_empty ==
    <<>>

(***************************************************************************)
(* A build: the identifiers the host knows and options.extensions.  An     *)
(* absent options.extensions is the empty list (both select defaultExts).  *)
(***************************************************************************)
Str_ts == <<"t", "s">>
Str_CSS_padded == <<" ", ".", "C", "S", "S", " ">>

Specials ==
    {Id_b, Id_aQuery, Id_pipe, Id_css, Id_upper, Id_dep, Id_virtual, Id_empty}

AllIds == {Id_main, Id_a} \cup Specials

Builds ==
    {[ids |-> {Id_main, Id_a, x}, extensions |-> <<>>] : x \in Specials}
    \cup {[ids |-> {Id_main, Id_a, Id_css}, extensions |-> <<Str_CSS_padded>>],
          [ids |-> {Id_main, Id_css, Id_upper},
           extensions |-> <<Str_ts, Str_CSS_padded>>]}

\* the sequences over S of length at most n
RECURSIVE SeqsUpTo(_, _)
SeqsUpTo(S, n) ==
    IF n = 0 THEN {<<>>}
    ELSE LET shorter == SeqsUpTo(S, n - 1)
         IN shorter \cup {Append(q, x) : q \in {r \in shorter : Len(r) = n - 1}, x \in S}

VARIABLES
    entries,        \* options.entries
    extensions,     \* options.extensions
    moduleIds,      \* the identifiers the host's module graph can mention
    oracle,         \* this.getModuleInfo, fixed for an id at its first query
    config,         \* the resolved config recorded by configResolved
    pc,             \* "idle", "loop" (the for loop over entries), "walk"
    runs,           \* number of generateBundle calls so far
    entryIdx,       \* position of the for loop in entries
    nodes, edges, nodeIdToOrder, edgeKeySet, entryRelIds, orderCounter,
    visited,        \* the visited set of the entry being walked
    stack,          \* the active traverse calls, innermost last
    calls,          \* the traverse calls of this run: <<entry index, id>>
    resultByEntry,  \* tree variant: result, the tree of each entry by its key
    counter,        \* tree variant: the order counter of collectDeps
    written         \* the results handed to fs.writeFileSync, in order

vars == <<entries, extensions, moduleIds, oracle, config, pc, runs, entryIdx,
          nodes, edges, nodeIdToOrder, edgeKeySet, entryRelIds, orderCounter,
          visited, stack, calls, written, resultByEntry, counter>>

optionVars == <<entries, extensions, moduleIds>>
graphVars == <<nodes, edges, nodeIdToOrder, edgeKeySet, entryRelIds, orderCounter>>
treeVars == <<resultByEntry, counter>>

NoConfig == [set |-> FALSE, root |-> <<>>]

(***************************************************************************)
(* The helpers of generateBundle.                                          *)
(***************************************************************************)
\* config.root || process.cwd()
root == IF config.root # <<>> THEN config.root ELSE Cwd

normalizeId(id) == split(id, "?")[1]

\* toRel without path.relative
toRelAbsolute(rootDir, absId) == normalizeId(absId)

\* toRel for a given root
toRelFrom(rootDir, absId) ==
    LET clean == normalizeId(absId)
        rel == pathRelative(rootDir, clean)
    IN IF rel # <<>> THEN rel ELSE clean

normalizeExt(ext) ==
    LET e == toLowerCase(trim(ext))
    IN IF startsWith(e, <<".">>) THEN e ELSE <<".">> \o e

defaultExts ==
    <<<<".", "j", "s">>, <<".", "j", "s", "x">>, <<".", "t", "s">>,
      <<".", "t", "s", "x">>, <<".", "v", "u", "e">>>>

configuredExtsOf(exts) ==
    IF Len(exts) > 0
    THEN [i \in 1..Len(exts) |-> normalizeExt(exts[i])]
    ELSE defaultExts

supportedExtsOf(exts) ==
    {configuredExtsOf(exts)[i] : i \in 1..Len(configuredExtsOf(exts))}

\* the argument of supportedExts.has in hasSupportedExt
extOf(id) == toLowerCase(extname(normalizeId(id)))

skipPolicy(id) ==
    \/ id = <<>>
    \/ includes(id, Str_node_modules)
    \/ startsWith(id, <<NUL>>)

\* The conversions are pure: each is evaluated once per identifier (and per
\* root, per extension option) and looked up from then on.
RelTable == [r \in {Str_proj} |-> [id \in AllIds |-> toRelFrom(r, id)]]
ExtTable == [id \in AllIds |-> extOf(id)]
SkipTable == [id \in AllIds |-> skipPolicy(id)]
SupportedTable ==
    [exts \in {b.extensions : b \in Builds} |-> supportedExtsOf(exts)]

toRel(absId) == RelTable[root][absId]
supportedExts == SupportedTable[extensions]
hasSupportedExt(id) == ExtTable[id] \in supportedExts
shouldSkip(id) == SkipTable[id]

\* the locals of one generateBundle call, as one record
Graph ==
    [nodes |-> nodes, edges |-> edges, nodeIdToOrder |-> nodeIdToOrder,
     edgeKeySet |-> edgeKeySet, entryRelIds |-> entryRelIds,
     orderCounter |-> orderCounter]

\* the locals with orderCounter declared outside generateBundle
newGraphKeepCounter(g) ==
    [nodes |-> <<>>, edges |-> <<>>, nodeIdToOrder |-> <<>>,
     edgeKeySet |-> {}, entryRelIds |-> <<>>, orderCounter |-> g.orderCounter]

\* the locals as generateBundle declares them
newGraph(g) ==
    [nodes |-> <<>>, edges |-> <<>>, nodeIdToOrder |-> <<>>,
     edgeKeySet |-> {}, entryRelIds |-> <<>>, orderCounter |-> 1]

hasNode(g, relId) == relId \in DOMAIN g.nodeIdToOrder

\* ensureNode without the nodeIdToOrder.has test
ensureNodeUnchecked(g, absId) ==
    LET relId == toRel(absId)
    IN [g EXCEPT !.nodeIdToOrder = (relId :> g.orderCounter) @@ @,
                 !.orderCounter = @ + 1,
                 !.nodes = Append(@, [id |-> relId, order |-> g.orderCounter])]

\* ensureNode with orderCounter read but not incremented
ensureNodeSameOrder(g, absId) ==
    LET relId == toRel(absId)
    IN IF ~hasNode(g, relId)
       THEN [g EXCEPT !.nodeIdToOrder = (relId :> g.orderCounter) @@ @,
                      !.nodes = Append(@, [id |-> relId, order |-> g.orderCounter])]
       ELSE g

ensureNode(g, absId) ==
    LET relId == toRel(absId)
    IN IF ~hasNode(g, relId)
       THEN [g EXCEPT !.nodeIdToOrder = (relId :> g.orderCounter) @@ @,
                      !.orderCounter = @ + 1,
                      !.nodes = Append(@, [id |-> relId, order |-> g.orderCounter])]
       ELSE g

KindStr(kind) == IF kind = "static" THEN Str_static ELSE Str_dynamic

edgeKey(fromRel, toRelId, kind) ==
    fromRel \o <<"|">> \o toRelId \o <<"|">> \o KindStr(kind)

addEdge(g, fromRel, toRelId, kind) ==
    LET key == edgeKey(fromRel, toRelId, kind)
    IN IF key \in g.edgeKeySet THEN g
       ELSE [g EXCEPT !.edgeKeySet = @ \cup {key},
                      !.edges = Append(@, [source |-> fromRel, target |-> toRelId,
                                           kind |-> kind])]

\* the head of traverse: the node of the module being walked
enterNode(g, id) ==
    IF hasSupportedExt(id) /\ ~hasNode(g, toRel(id)) THEN ensureNode(g, id) ELSE g

\* recordDep with the edge recorded whenever the dependency is supported
recordDepAnySource(g, id, dep, kind) ==
    LET fromRel == toRel(id)
        depRel == toRel(dep)
    IN IF hasSupportedExt(dep)
       THEN addEdge(IF ~hasNode(g, depRel) THEN ensureNode(g, dep) ELSE g,
                    fromRel, depRel, kind)
       ELSE g

\* the body of both import loops, for a dependency that is not skipped
recordDep(g, id, dep, kind) ==
    LET fromRel == toRel(id)
        depRel == toRel(dep)
    IN IF hasSupportedExt(id) /\ hasSupportedExt(dep)
       THEN addEdge(IF ~hasNode(g, depRel) THEN ensureNode(g, dep) ELSE g,
                    fromRel, depRel, kind)
       ELSE IF hasSupportedExt(dep) /\ ~hasNode(g, depRel)
            THEN ensureNode(g, dep)
            ELSE g

\* the entry's own node and its place in the entries output
registerEntry(g, entry) ==
    IF hasSupportedExt(entry)
    THEN [ensureNode(g, entry) EXCEPT !.entryRelIds = Append(@, toRel(entry))]
    ELSE g

\* nodes.sort((a, b) => a.order - b.order): a stable sort by order
RECURSIVE insertByOrder(_, _)
insertByOrder(sorted, n) ==
    IF sorted = <<>> THEN <<n>>
    ELSE IF sorted[Len(sorted)].order <= n.order THEN Append(sorted, n)
    ELSE Append(insertByOrder(SubSeq(sorted, 1, Len(sorted) - 1), n),
                sorted[Len(sorted)])

RECURSIVE sortByOrder(_)
sortByOrder(ns) ==
    IF ns = <<>> THEN <<>>
    ELSE insertByOrder(sortByOrder(SubSeq(ns, 1, Len(ns) - 1)), ns[Len(ns)])

\* the DagOutput that is serialized
result(g) ==
    [nodes |-> sortByOrder(g.nodes), edges |-> g.edges, entries |-> g.entryRelIds]

SetGraph(g) ==
    /\ nodes' = g.nodes
    /\ edges' = g.edges
    /\ nodeIdToOrder' = g.nodeIdToOrder
    /\ edgeKeySet' = g.edgeKeySet
    /\ entryRelIds' = g.entryRelIds
    /\ orderCounter' = g.orderCounter

(***************************************************************************)
(* The module-info oracle.                                                 *)
(***************************************************************************)
NoInfo == [known |-> FALSE, importedIds |-> <<>>, dynamicallyImportedIds |-> <<>>]

RECURSIVE importsOf(_, _)
importsOf(o, S) ==
    IF S = {} THEN 0
    ELSE LET x == CHOOSE y \in S : TRUE
         IN Len(o[x].importedIds) + Len(o[x].dynamicallyImportedIds)
            + importsOf(o, S \ {x})

\* import-list items the oracle may still hand out
importsLeft == MaxImports - importsOf(oracle, DOMAIN oracle)

\* what getModuleInfo may answer for an identifier it is first asked about
Answers ==
    {NoInfo} \cup
    {[known |-> TRUE, importedIds |-> sd[1], dynamicallyImportedIds |-> sd[2]] :
        sd \in {x \in SeqsUpTo(moduleIds, importsLeft)
                        \X SeqsUpTo(moduleIds, importsLeft) :
                    Len(x[1]) + Len(x[2]) <= importsLeft}}

\* this.getModuleInfo(id): the answers the oracle can give for id
getModuleInfo(id) == IF id \in DOMAIN oracle THEN {oracle[id]} ELSE Answers

(***************************************************************************)
(* The state machine.                                                      *)
(***************************************************************************)
Init ==
    /\ \E b \in Builds :
          /\ moduleIds = b.ids
          /\ extensions = b.extensions
          /\ entries \in SeqsUpTo(b.ids \cup {Id_empty}, MaxEntries)
    /\ oracle = <<>>
    /\ config = NoConfig
    /\ pc = "idle"
    /\ runs = 0
    /\ entryIdx = 0
    /\ nodes = <<>>
    /\ edges = <<>>
    /\ nodeIdToOrder = <<>>
    /\ edgeKeySet = {}
    /\ entryRelIds = <<>>
    /\ orderCounter = 1
    /\ visited = {}
    /\ stack = <<>>
    /\ calls = <<>>
    /\ written = <<>>
    /\ resultByEntry = <<>>
    /\ counter = 1

\* configResolved(resolvedConfig)
ConfigResolved ==
    /\ pc = "idle"
    /\ ~config.set
    /\ config' = [set |-> TRUE, root |-> Str_proj]
    /\ UNCHANGED <<optionVars, oracle, pc, runs, entryIdx, graphVars, visited,
                   stack, calls, written>>
    /\ UNCHANGED treeVars

\* generateBundle without the test of config: the walk always starts
GenerateBundleUnguarded ==
    /\ pc = "idle"
    /\ runs < MaxRuns
    /\ runs' = runs + 1
    /\ pc' = "loop"
    /\ entryIdx' = 1
    /\ SetGraph(newGraph(Graph))
    /\ visited' = {}
    /\ calls' = <<>>
    /\ UNCHANGED <<optionVars, oracle, config, stack, written>>
    /\ UNCHANGED treeVars

\* the nodes of all entries registered before the first walk
RECURSIVE registerEntries(_, _)
registerEntries(g, es) ==
    IF es = <<>> THEN g
    ELSE LET before == registerEntries(g, SubSeq(es, 1, Len(es) - 1))
             entry == es[Len(es)]
         IN IF entry = <<>> THEN before ELSE registerEntry(before, entry)

\* generateBundle creating every entry's node ahead of the walks
GenerateBundleEntriesFirst ==
    /\ pc = "idle"
    /\ runs < MaxRuns
    /\ runs' = runs + 1
    /\ IF ~config.set
       THEN UNCHANGED <<pc, entryIdx, graphVars, visited, calls>>
       ELSE /\ pc' = "loop"
            /\ entryIdx' = 1
            /\ SetGraph(registerEntries(newGraph(Graph), entries))
            /\ visited' = {}
            /\ calls' = <<>>
    /\ UNCHANGED <<optionVars, oracle, config, stack, written>>
    /\ UNCHANGED treeVars

\* generateBundle is called: the early return, or the locals are declared
GenerateBundle ==
    /\ pc = "idle"
    /\ runs < MaxRuns
    /\ runs' = runs + 1
    /\ IF ~config.set
       THEN UNCHANGED <<pc, entryIdx, graphVars, visited, calls>>
       ELSE /\ pc' = "loop"
            /\ entryIdx' = 1
            /\ SetGraph(newGraph(Graph))
            /\ visited' = {}
            /\ calls' = <<>>
    /\ UNCHANGED <<optionVars, oracle, config, stack, written>>
    /\ UNCHANGED treeVars

\* one iteration of the for loop, up to the call traverse(entry)
EntryStep ==
    /\ pc = "loop"
    /\ entryIdx <= Len(entries)
    /\ LET entry == entries[entryIdx]
       IN IF entry = <<>>
          THEN /\ entryIdx' = entryIdx + 1
               /\ UNCHANGED <<pc, graphVars, visited, stack, calls>>
          ELSE /\ SetGraph(registerEntry(Graph, entry))
               /\ visited' = {entry}
               /\ stack' = <<[id |-> entry, pos |-> 0]>>
               /\ calls' = Append(calls, <<entryIdx, entry>>)
               /\ pc' = "walk"
               /\ UNCHANGED entryIdx
    /\ UNCHANGED <<optionVars, oracle, config, runs, written>>
    /\ UNCHANGED treeVars

Top == stack[Len(stack)]
Info == oracle[Top.id]
staticCount == Len(Info.importedIds)
dynamicCount == Len(Info.dynamicallyImportedIds)

\* the return of a traverse call; the outermost one ends the loop iteration
Pop ==
    /\ stack' = SubSeq(stack, 1, Len(stack) - 1)
    /\ IF Len(stack) = 1
       THEN pc' = "loop" /\ entryIdx' = entryIdx + 1
       ELSE UNCHANGED <<pc, entryIdx>>

\* traverse(id) where a missing record ends the walk of the whole entry
TraverseEnterAbort ==
    /\ pc = "walk"
    /\ Top.pos = 0
    /\ \E info \in getModuleInfo(Top.id) :
          /\ oracle' = (Top.id :> info) @@ oracle
          /\ SetGraph(enterNode(Graph, Top.id))
          /\ IF ~info.known
             THEN stack' = <<>> /\ pc' = "loop" /\ entryIdx' = entryIdx + 1
             ELSE /\ stack' = [stack EXCEPT ![Len(stack)].pos = 1]
                  /\ UNCHANGED <<pc, entryIdx>>
    /\ UNCHANGED <<optionVars, config, runs, visited, calls, written>>
    /\ UNCHANGED treeVars

\* traverse(id) up to the first loop: the oracle query and the module's node
TraverseEnter ==
    /\ pc = "walk"
    /\ Top.pos = 0
    /\ \E info \in getModuleInfo(Top.id) :
          /\ oracle' = (Top.id :> info) @@ oracle
          /\ SetGraph(enterNode(Graph, Top.id))
          /\ IF ~info.known
             THEN Pop
             ELSE /\ stack' = [stack EXCEPT ![Len(stack)].pos = 1]
                  /\ UNCHANGED <<pc, entryIdx>>
    /\ UNCHANGED <<optionVars, config, runs, visited, calls, written>>
    /\ UNCHANGED treeVars

\* importStep without the shouldSkip test
importStepNoSkip(dep, kind) ==
    /\ SetGraph(recordDep(Graph, Top.id, dep, kind))
    /\ IF dep \notin visited
       THEN /\ visited' = visited \cup {dep}
            /\ stack' = Append([stack EXCEPT ![Len(stack)].pos = @ + 1],
                               [id |-> dep, pos |-> 0])
            /\ calls' = Append(calls, <<entryIdx, dep>>)
       ELSE /\ stack' = [stack EXCEPT ![Len(stack)].pos = @ + 1]
            /\ UNCHANGED <<visited, calls>>

\* importStep that recurses without adding the dependency to visited
importStepNoMark(dep, kind) ==
    IF shouldSkip(dep)
    THEN /\ stack' = [stack EXCEPT ![Len(stack)].pos = @ + 1]
         /\ UNCHANGED <<graphVars, visited, calls>>
    ELSE /\ SetGraph(recordDep(Graph, Top.id, dep, kind))
         /\ IF dep \notin visited
            THEN /\ stack' = Append([stack EXCEPT ![Len(stack)].pos = @ + 1],
                                    [id |-> dep, pos |-> 0])
                 /\ calls' = Append(calls, <<entryIdx, dep>>)
                 /\ UNCHANGED visited
            ELSE /\ stack' = [stack EXCEPT ![Len(stack)].pos = @ + 1]
                 /\ UNCHANGED <<visited, calls>>

\* importStep with the visited test ahead of the recording of the dependency
importStepCheckFirst(dep, kind) ==
    IF shouldSkip(dep) \/ dep \in visited
    THEN /\ stack' = [stack EXCEPT ![Len(stack)].pos = @ + 1]
         /\ UNCHANGED <<graphVars, visited, calls>>
    ELSE /\ SetGraph(recordDep(Graph, Top.id, dep, kind))
         /\ visited' = visited \cup {dep}
         /\ stack' = Append([stack EXCEPT ![Len(stack)].pos = @ + 1],
                            [id |-> dep, pos |-> 0])
         /\ calls' = Append(calls, <<entryIdx, dep>>)

\* importStep that passes over the dependencies of an unsupported importer
importStepSupportedImporter(dep, kind) ==
    IF shouldSkip(dep) \/ ~hasSupportedExt(Top.id)
    THEN /\ stack' = [stack EXCEPT ![Len(stack)].pos = @ + 1]
         /\ UNCHANGED <<graphVars, visited, calls>>
    ELSE /\ SetGraph(recordDep(Graph, Top.id, dep, kind))
         /\ IF dep \notin visited
            THEN /\ visited' = visited \cup {dep}
                 /\ stack' = Append([stack EXCEPT ![Len(stack)].pos = @ + 1],
                                    [id |-> dep, pos |-> 0])
                 /\ calls' = Append(calls, <<entryIdx, dep>>)
            ELSE /\ stack' = [stack EXCEPT ![Len(stack)].pos = @ + 1]
                 /\ UNCHANGED <<visited, calls>>

\* one iteration of an import loop of traverse(id) over the dependency dep
importStep(dep, kind) ==
    IF shouldSkip(dep)
    THEN /\ stack' = [stack EXCEPT ![Len(stack)].pos = @ + 1]
         /\ UNCHANGED <<graphVars, visited, calls>>
    ELSE /\ SetGraph(recordDep(Graph, Top.id, dep, kind))
         /\ IF dep \notin visited
            THEN /\ visited' = visited \cup {dep}
                 /\ stack' = Append([stack EXCEPT ![Len(stack)].pos = @ + 1],
                                    [id |-> dep, pos |-> 0])
                 /\ calls' = Append(calls, <<entryIdx, dep>>)
            ELSE /\ stack' = [stack EXCEPT ![Len(stack)].pos = @ + 1]
                 /\ UNCHANGED <<visited, calls>>

\* for (const dep of info.importedIds)
StaticImport ==
    /\ pc = "walk"
    /\ Top.pos >= 1
    /\ Top.pos <= staticCount
    /\ importStep(Info.importedIds[Top.pos], "static")
    /\ UNCHANGED <<optionVars, oracle, config, pc, runs, entryIdx, written>>
    /\ UNCHANGED treeVars

\* the dynamic loop with a position of its own, not waiting for the static loop
DynamicImportEarly ==
    /\ pc = "walk"
    /\ Top.pos >= 1
    /\ Top.pos <= dynamicCount
    /\ importStep(Info.dynamicallyImportedIds[Top.pos], "dynamic")
    /\ UNCHANGED <<optionVars, oracle, config, pc, runs, entryIdx, written>>
    /\ UNCHANGED treeVars

\* for (const dep of info.dynamicallyImportedIds)
DynamicImport ==
    /\ pc = "walk"
    /\ Top.pos >= 1
    /\ Top.pos > staticCount
    /\ Top.pos <= staticCount + dynamicCount
    /\ importStep(Info.dynamicallyImportedIds[Top.pos - staticCount], "dynamic")
    /\ UNCHANGED <<optionVars, oracle, config, pc, runs, entryIdx, written>>
    /\ UNCHANGED treeVars

\* traverse(id) returns after both loops
TraverseReturn ==
    /\ pc = "walk"
    /\ Top.pos >= 1
    /\ Top.pos > staticCount + dynamicCount
    /\ Pop
    /\ UNCHANGED <<optionVars, oracle, config, runs, graphVars, visited, calls,
                   written>>
    /\ UNCHANGED treeVars

\* after the for loop: the sort and fs.writeFileSync
WriteResult ==
    /\ pc = "loop"
    /\ entryIdx > Len(entries)
    /\ nodes' = sortByOrder(nodes)
    /\ written' = Append(written, result(Graph))
    /\ pc' = "idle"
    /\ UNCHANGED <<optionVars, oracle, config, runs, entryIdx, edges,
                   nodeIdToOrder, edgeKeySet, entryRelIds, orderCounter, visited,
                   stack, calls>>
    /\ UNCHANGED treeVars

Next ==
    \/ ConfigResolved
    \/ GenerateBundle
    \/ EntryStep
    \/ TraverseEnter
    \/ StaticImport
    \/ DynamicImport
    \/ TraverseReturn
    \/ WriteResult

Spec == Init /\ [][Next]_vars

(***************************************************************************)
(* Builds whose module graph is given: the oracle is fixed from the start  *)
(* and only options.entries varies.                                        *)
(***************************************************************************)
Info_(static, dynamic) ==
    [known |-> TRUE, importedIds |-> static, dynamicallyImportedIds |-> dynamic]

\* main.ts imports a.ts statically and b.ts dynamically, a.ts imports main.ts,
\* b.ts is unknown to the host
ExampleOracle ==
    (Id_main :> Info_(<<Id_a>>, <<Id_b>>))
    @@ (Id_a :> Info_(<<Id_main>>, <<>>))
    @@ (Id_b :> NoInfo)

\* s.css imports a.ts, a.ts and 'a.ts|src/a.ts' import each other
PipeOracle ==
    (Id_css :> Info_(<<Id_a>>, <<>>))
    @@ (Id_a :> Info_(<<Id_pipe>>, <<>>))
    @@ (Id_pipe :> Info_(<<Id_a>>, <<>>))

Scenarios ==
    {[ids |-> {Id_main, Id_a, Id_b}, extensions |-> <<>>, oracle |-> ExampleOracle],
     [ids |-> {Id_css, Id_a, Id_pipe}, extensions |-> <<>>, oracle |-> PipeOracle]}

InitScenario ==
    /\ \E sc \in Scenarios :
          /\ moduleIds = sc.ids
          /\ extensions = sc.extensions
          /\ oracle = sc.oracle
          /\ entries \in SeqsUpTo(sc.ids \cup {Id_empty}, MaxEntries)
    /\ config = NoConfig
    /\ pc = "idle"
    /\ runs = 0
    /\ entryIdx = 0
    /\ nodes = <<>>
    /\ edges = <<>>
    /\ nodeIdToOrder = <<>>
    /\ edgeKeySet = {}
    /\ entryRelIds = <<>>
    /\ orderCounter = 1
    /\ visited = {}
    /\ stack = <<>>
    /\ calls = <<>>
    /\ written = <<>>
    /\ resultByEntry = <<>>
    /\ counter = 1

SpecScenario == InitScenario /\ [][Next]_vars

(***************************************************************************)
(* A build with lists of three entries: s.css imports b.ts; main.ts        *)
(* imports a.ts statically and b.ts dynamically; a.ts imports U.TS.        *)
(***************************************************************************)
OrderOracle ==
    (Id_css :> Info_(<<Id_b>>, <<>>))
    @@ (Id_main :> Info_(<<Id_a>>, <<Id_b>>))
    @@ (Id_a :> Info_(<<Id_upper>>, <<>>))
    @@ (Id_b :> Info_(<<>>, <<>>))
    @@ (Id_upper :> NoInfo)

OrderIds == {Id_css, Id_main, Id_a, Id_b, Id_upper}

InitOrder ==
    /\ moduleIds = OrderIds
    /\ extensions = <<>>
    /\ oracle = OrderOracle
    /\ entries \in {q \in SeqsUpTo(OrderIds, MaxEntries + 1) : Len(q) >= MaxEntries}
    /\ config = NoConfig
    /\ pc = "idle"
    /\ runs = 0
    /\ entryIdx = 0
    /\ nodes = <<>>
    /\ edges = <<>>
    /\ nodeIdToOrder = <<>>
    /\ edgeKeySet = {}
    /\ entryRelIds = <<>>
    /\ orderCounter = 1
    /\ visited = {}
    /\ stack = <<>>
    /\ calls = <<>>
    /\ written = <<>>
    /\ resultByEntry = <<>>
    /\ counter = 1

SpecOrder == InitOrder /\ [][Next]_vars

(***************************************************************************)
(* Vocabulary of the properties.                                           *)
(***************************************************************************)
Range(q) == {q[i] : i \in 1..Len(q)}
NodeIds(ns) == {ns[i].id : i \in 1..Len(ns)}
NoRepeats(q) == \A i, j \in 1..Len(q) : q[i] = q[j] => i = j

\* a generateBundle call has run to its end and none is in progress
Completed == pc = "idle" /\ written # <<>>

\* the output of the call that has just completed
Output == written[Len(written)]

\* the modules traverse was called for in this run
Walked == {calls[i][2] : i \in 1..Len(calls)}

\* the dependencies of a walked module that the import loops do not skip,
\* each with the kind of the list it stands in
DepsOf(m) ==
    IF m \in DOMAIN oracle
    THEN {<<d, "static">> : d \in {x \in Range(oracle[m].importedIds) : ~shouldSkip(x)}}
         \cup {<<d, "dynamic">> :
                  d \in {x \in Range(oracle[m].dynamicallyImportedIds) : ~shouldSkip(x)}}
    ELSE {}

\* some raw identifier of the build with this canonical id passes the filter
SupportedRel(relId) ==
    \E x \in moduleIds : toRel(x) = relId /\ hasSupportedExt(x)

(***************************************************************************)
(* C1. Every edge, while the graph is built and in every output, has a      *)
(* source and a target that are ids of nodes, and both are canonical ids   *)
(* of identifiers that satisfy the Extension Filter.                       *)
(***************************************************************************)
EdgesWellFormed(ns, es) ==
    \A i \in 1..Len(es) :
        /\ es[i].source \in NodeIds(ns)
        /\ es[i].target \in NodeIds(ns)
        /\ SupportedRel(es[i].source)
        /\ SupportedRel(es[i].target)

C1_EdgeEndpointsAreSupportedNodes ==
    /\ EdgesWellFormed(nodes, edges)
    /\ \A k \in 1..Len(written) : EdgesWellFormed(written[k].nodes, written[k].edges)

\* an output with an edge, from a run that walked an unsupported module
\* importing a supported one
C1_Witness ==
    /\ Completed
    /\ Output.edges # <<>>
    /\ \E m \in Walked :
          /\ ~hasSupportedExt(m)
          /\ \E dk \in DepsOf(m) : hasSupportedExt(dk[1])

(***************************************************************************)
(* C2. In every state of a run no two nodes share an id and no two edges    *)
(* share a (source, target, kind) triple.                                  *)
(***************************************************************************)
C2_NodesAndEdgesUnique ==
    /\ \A i, j \in 1..Len(nodes) : nodes[i].id = nodes[j].id => i = j
    /\ NoRepeats(edges)
    /\ \A k \in 1..Len(written) :
          /\ \A i, j \in 1..Len(written[k].nodes) :
                written[k].nodes[i].id = written[k].nodes[j].id => i = j
          /\ NoRepeats(written[k].edges)

\* a run over two entries with the same canonical id, in which a module was
\* imported twice by the same source
C2_Witness ==
    /\ Completed
    /\ Len(entries) = 2
    /\ entries[1] # <<>> /\ entries[2] # <<>>
    /\ toRel(entries[1]) = toRel(entries[2])
    /\ Len(Output.nodes) >= 1
    /\ \E m \in Walked :
          /\ m \in DOMAIN oracle
          /\ Len(oracle[m].importedIds) = 2
          /\ ~shouldSkip(oracle[m].importedIds[1])
          /\ hasSupportedExt(oracle[m].importedIds[1])
          /\ hasSupportedExt(m)
          /\ toRel(oracle[m].importedIds[1]) = toRel(oracle[m].importedIds[2])

(***************************************************************************)
(* C3. The node created k-th has order k: the counter starts at 1, grows   *)
(* by one with each new node and is not reset between entries, so the      *)
(* orders are exactly 1..N and the list is ascending before the sort.      *)
(***************************************************************************)
C3_OrdersAreOneToN ==
    /\ orderCounter = Len(nodes) + 1
    /\ \A k \in 1..Len(nodes) :
          nodes[k].order = k /\ nodeIdToOrder[nodes[k].id] = k
    /\ DOMAIN nodeIdToOrder = NodeIds(nodes)
    /\ \A r \in 1..Len(written) :
          \A k \in 1..Len(written[r].nodes) : written[r].nodes[k].order = k

\* an output with three nodes, created under two different entries
C3_Witness ==
    /\ Completed
    /\ Len(Output.nodes) = 3
    /\ Len(Output.entries) = 2
    /\ \E i \in 1..Len(calls) : calls[i][1] = 2

(***************************************************************************)
(* C4. The walk of every entry terminates, also on import cycles and       *)
(* self-imports, and for the two-module cycle (A imports B, B imports A,   *)
(* both supported and not skipped) with A as the only entry the edges      *)
(* produced are exactly A->B static and B->A static, each once.            *)
(***************************************************************************)
\* what a traverse call may still do: the query when it has not been made,
\* then one step per import-list item, then the return
StepsLeft(f, o) ==
    IF f.pos = 0 THEN MaxImports + 3
    ELSE Len(o[f.id].importedIds) + Len(o[f.id].dynamicallyImportedIds) + 2 - f.pos

RECURSIVE StepsLeftOnStack(_, _)
StepsLeftOnStack(st, o) ==
    IF st = <<>> THEN 0
    ELSE StepsLeft(st[Len(st)], o) + StepsLeftOnStack(SubSeq(st, 1, Len(st) - 1), o)

\* a bound on the steps the walk of the current entry can still take: every
\* identifier not yet visited can start one more traverse call
WalkMeasure(st, vis, o) ==
    StepsLeftOnStack(st, o) + Cardinality(moduleIds \ vis) * (MaxImports + 4)

\* every step of a walk lowers the bound, which never falls below zero: the
\* walk of an entry takes finitely many steps
WalkMeasureDecreases ==
    [][pc = "walk" =>
         /\ WalkMeasure(stack', visited', oracle') < WalkMeasure(stack, visited, oracle)
         /\ WalkMeasure(stack', visited', oracle') >= 0]_vars

\* no identifier is being walked twice at once, and the recursion is no deeper
\* than the number of identifiers
WalkIsBounded ==
    /\ NoRepeats([i \in 1..Len(stack) |-> stack[i].id])
    /\ {stack[i].id : i \in 1..Len(stack)} \subseteq visited
    /\ Len(stack) <= Cardinality(moduleIds)

Edge(a, b, kind) == [source |-> toRel(a), target |-> toRel(b), kind |-> kind]

TwoCycle(a, b) ==
    /\ a # b
    /\ entries = <<a>>
    /\ ~shouldSkip(a) /\ ~shouldSkip(b)
    /\ hasSupportedExt(a) /\ hasSupportedExt(b)
    /\ a \in DOMAIN oracle /\ oracle[a] = Info_(<<b>>, <<>>)
    /\ b \in DOMAIN oracle /\ oracle[b] = Info_(<<a>>, <<>>)

C4_CycleTerminatesWithBothEdges ==
    /\ WalkIsBounded
    /\ \A a, b \in moduleIds :
          TwoCycle(a, b) /\ Completed =>
              /\ Range(Output.edges) = {Edge(a, b, "static"), Edge(b, a, "static")}
              /\ NoRepeats(Output.edges)

(***************************************************************************)
(* C5. Every generateBundle call of one plugin instance, over the same     *)
(* entries, oracle answers, root and extensions, writes the same output:   *)
(* each call starts from an empty node map, edge-key set and entries list  *)
(* and from order 1.                                                       *)
(***************************************************************************)
C5_RepeatedRunsAgree ==
    /\ \A i, j \in 1..Len(written) : written[i] = written[j]
    /\ (pc = "loop" /\ entryIdx = 1) =>
          /\ nodes = <<>> /\ edges = <<>> /\ entryRelIds = <<>>
          /\ DOMAIN nodeIdToOrder = {} /\ edgeKeySet = {}
          /\ orderCounter = 1

\* two completed calls, each with at least two nodes and an edge
C5_Witness ==
    /\ Completed
    /\ Len(written) = 2
    /\ Len(written[1].nodes) >= 2
    /\ Len(written[2].edges) >= 1

(***************************************************************************)
(* The example of the specification: entries = [/proj/src/main.ts], root   *)
(* /proj, main.ts importing a.ts statically and b.ts dynamically, a.ts     *)
(* importing main.ts, b.ts unknown to the oracle.                          *)
(***************************************************************************)
Rel_main == <<"s", "r", "c", "/", "m", "a", "i", "n", ".", "t", "s">>
Rel_a == <<"s", "r", "c", "/", "a", ".", "t", "s">>
Rel_b == <<"s", "r", "c", "/", "b", ".", "t", "s">>

IsExample ==
    /\ entries = <<Id_main>>
    /\ extensions = <<>>
    /\ oracle = ExampleOracle
    /\ root = Str_proj

ExampleNodes ==
    <<[id |-> Rel_main, order |-> 1], [id |-> Rel_a, order |-> 2],
      [id |-> Rel_b, order |-> 3]>>

\* C6 as amended. The output of the example is the nodes src/main.ts (1),
\* src/a.ts (2), src/b.ts (3), the edge sequence main->a static, a->main
\* static, main->b dynamic (a.ts is walked, and its edge recorded, before
\* the dynamic imports of main.ts are looked at) and entries = [src/main.ts].
C6_ExampleOutput ==
    IsExample =>
        \A k \in 1..Len(written) :
            written[k] =
                [nodes |-> ExampleNodes,
                 edges |-> <<[source |-> Rel_main, target |-> Rel_a, kind |-> "static"],
                             [source |-> Rel_a, target |-> Rel_main, kind |-> "static"],
                             [source |-> Rel_main, target |-> Rel_b, kind |-> "dynamic"]>>,
                 entries |-> <<Rel_main>>]

\* the example has been run to its end
C6_Witness == IsExample /\ Completed

\* C6 as claimed. The output of the example is the nodes src/main.ts (1),
\* src/a.ts (2), src/b.ts (3), the edge sequence main->a static, main->b
\* dynamic, a->main static and entries = [src/main.ts].
C6_ExampleOutputAsClaimed ==
    IsExample =>
        \A k \in 1..Len(written) :
            written[k] =
                [nodes |-> ExampleNodes,
                 edges |-> <<[source |-> Rel_main, target |-> Rel_a, kind |-> "static"],
                             [source |-> Rel_main, target |-> Rel_b, kind |-> "dynamic"],
                             [source |-> Rel_a, target |-> Rel_main, kind |-> "static"]>>,
                 entries |-> <<Rel_main>>]

(***************************************************************************)
(* C7. No identifier that matches the Skip Policy (empty, containing       *)
(* node_modules, starting with NUL) appears in an output as a node id, an  *)
(* edge source or an edge target, be it an entry or a dependency.          *)
(***************************************************************************)
OutputIds(o) ==
    NodeIds(o.nodes)
    \cup {o.edges[i].source : i \in 1..Len(o.edges)}
    \cup {o.edges[i].target : i \in 1..Len(o.edges)}

C7_NoSkippedIdInOutput ==
    \A k \in 1..Len(written) :
        /\ \A x \in moduleIds \cup Range(entries) :
              shouldSkip(x) => toRel(x) \notin OutputIds(written[k])
        /\ \A r \in OutputIds(written[k]) : ~skipPolicy(r)

(***************************************************************************)
(* C8. What the walk does with a dependency that matches the Skip Policy.  *)
(***************************************************************************)
\* all the items of both import lists of a module, skipped ones included
RawDepsOf(m) ==
    IF m \in DOMAIN oracle
    THEN Range(oracle[m].importedIds) \cup Range(oracle[m].dynamicallyImportedIds)
    ELSE {}

\* the identifiers reachable from the set S through imports that are not skipped
RECURSIVE Closure(_)
Closure(S) ==
    LET T == S \cup {dk[1] : dk \in UNION {DepsOf(m) : m \in S}}
    IN IF T = S THEN S ELSE Closure(T)

ReachableIds == Closure(Range(entries) \ {Id_empty})

\* C8 as amended. A dependency that matches the Skip Policy gets no node and
\* no edge from that import and the walk does not recurse into it: traverse is
\* called, and the oracle queried, only for the entries and for identifiers
\* reached from an entry through imports that are not skipped, and every id in
\* the graph is the canonical id of such an identifier.
C8_SkippedDependencyNotWalked ==
    /\ \A i \in 1..Len(calls) :
          calls[i][2] = entries[calls[i][1]] \/ ~shouldSkip(calls[i][2])
    /\ DOMAIN oracle \subseteq ReachableIds
    /\ \A r \in NodeIds(nodes) : \E x \in ReachableIds : toRel(x) = r
    /\ \A k \in 1..Len(written) :
          \A r \in OutputIds(written[k]) : \E x \in ReachableIds : toRel(x) = r

\* a completed run that walked a module importing a skipped, supported
\* identifier, which the oracle was never asked about and which has no node
C8_Witness ==
    /\ Completed
    /\ \E m \in Walked : \E d \in RawDepsOf(m) :
          /\ shouldSkip(d)
          /\ hasSupportedExt(d)
          /\ d \notin DOMAIN oracle
          /\ toRel(d) \notin OutputIds(Output)

\* C8 as claimed. A dependency that matches the Skip Policy gets no node and
\* no edge but the walk recurses into it: the oracle is queried for it.
C8_SkippedDependencyIsWalked ==
    Completed =>
        \A m \in Walked : \A d \in RawDepsOf(m) :
            shouldSkip(d) =>
                /\ toRel(d) \notin OutputIds(Output)
                /\ d \in DOMAIN oracle

(***************************************************************************)
(* C9. A non-empty entry whose suffix is not in the extension set is       *)
(* walked, has no node, is not in the entries output and is the source of  *)
(* no edge; its supported dependencies that are not skipped are nodes, and *)
(* the edges among the supported modules walked under it are recorded.     *)
(***************************************************************************)
\* the modules traverse was called for under the i-th entry
WalkedUnder(i) == {calls[n][2] : n \in {j \in 1..Len(calls) : calls[j][1] = i}}

C9_UnsupportedEntryIsTraversed ==
    Completed =>
        \A i \in 1..Len(entries) :
            LET e == entries[i]
            IN (e # <<>> /\ ~hasSupportedExt(e)) =>
                  /\ e \in WalkedUnder(i)
                  /\ toRel(e) \notin NodeIds(Output.nodes)
                  /\ toRel(e) \notin Range(Output.entries)
                  /\ \A n \in 1..Len(Output.edges) : Output.edges[n].source # toRel(e)
                  /\ \A dk \in DepsOf(e) :
                        hasSupportedExt(dk[1]) => toRel(dk[1]) \in NodeIds(Output.nodes)
                  /\ \A m \in WalkedUnder(i) : \A dk \in DepsOf(m) :
                        (hasSupportedExt(m) /\ hasSupportedExt(dk[1])) =>
                            Edge(m, dk[1], dk[2]) \in Range(Output.edges)

(***************************************************************************)
(* C10. Every (source, target, kind) observed in a walk, with the source a *)
(* walked module, the target a dependency in its static or dynamic list    *)
(* that is not skipped, and both supported, is in the output edges exactly *)
(* once.                                                                   *)
(***************************************************************************)
C10_EveryObservedEdgeOnce ==
    Completed =>
        \A m \in Walked : \A dk \in DepsOf(m) :
            (hasSupportedExt(m) /\ hasSupportedExt(dk[1])) =>
                Cardinality({n \in 1..Len(Output.edges) :
                                Output.edges[n] = Edge(m, dk[1], dk[2])}) = 1

(***************************************************************************)
(* generateBundle before and after configResolved.                         *)
(***************************************************************************)
NothingBuilt ==
    /\ DOMAIN oracle = {}
    /\ nodes = <<>> /\ edges = <<>> /\ nodeIdToOrder = <<>>
    /\ edgeKeySet = {} /\ entryRelIds = <<>>
    /\ stack = <<>> /\ calls = <<>>
    /\ written = <<>>
    /\ pc = "idle"

CallIsMade == runs' # runs
CallEnds == pc # "idle" /\ pc' = "idle"

\* C11: as long as no configuration is recorded, a generateBundle call
\* changes nothing (no oracle query, no graph state, no artifact); once
\* the configuration is recorded every call starts the walk and the
\* artifact is written exactly once per call, when the call ends.
C11_NoConfigIsNoOp ==
    /\ [](~config.set => NothingBuilt)
    /\ [][(CallIsMade /\ ~config.set) =>
             UNCHANGED <<oracle, graphVars, visited, stack, calls, written,
                         pc, entryIdx>>]_vars
    /\ [][(CallIsMade /\ config.set) => (pc' = "loop" /\ written' = written)]_vars
    /\ [][CallEnds => Len(written') = Len(written) + 1]_vars
    /\ [][written' # written => (CallEnds /\ \E o \in {result(Graph')} :
                                      written' = Append(written, o))]_vars

\* a call without configuration, then one with it that wrote once
C11_Witness ==
    /\ config.set
    /\ runs = 2
    /\ pc = "idle"
    /\ Len(written) = 1
    /\ Len(written[1].nodes) >= 2

(***************************************************************************)
(* Modules the oracle has no record of.                                    *)
(***************************************************************************)
\* the step in which the oracle answers a traverse call with no record
NoRecordStep ==
    /\ pc = "walk"
    /\ Top.pos = 0
    /\ Top.id \in DOMAIN oracle'
    /\ ~oracle'[Top.id].known

Known(m) == m \in DOMAIN oracle /\ oracle[m].known

\* C12: a module the oracle has no record of is a leaf and not an error:
\* its traverse call returns at once, creating no edge and examining no
\* dependency; it is a node if it passes the extension filter; no edge has
\* a source that only such modules stand for; the walk goes on with the
\* remaining siblings and the remaining entries.
C12_UnknownModuleIsLeaf ==
    /\ [][NoRecordStep =>
             /\ stack' = SubSeq(stack, 1, Len(stack) - 1)
             /\ UNCHANGED <<edges, edgeKeySet, visited, calls>>
             /\ hasSupportedExt(Top.id) => toRel(Top.id) \in NodeIds(nodes')]_vars
    /\ [](Completed =>
             /\ \A m \in Walked :
                   /\ m \in DOMAIN oracle
                   /\ hasSupportedExt(m) => toRel(m) \in NodeIds(Output.nodes)
             /\ \A n \in 1..Len(Output.edges) :
                   \E m \in Walked : Known(m) /\ toRel(m) = Output.edges[n].source
             /\ \A i \in 1..Len(entries) :
                   /\ entries[i] # <<>> => entries[i] \in WalkedUnder(i)
                   /\ \A m \in WalkedUnder(i) : \A dk \in DepsOf(m) :
                         dk[1] \in WalkedUnder(i))

\* a module imports a leaf without record and then a sibling, both walked
C12_Witness ==
    /\ Completed
    /\ \E p, m, s \in Walked :
          /\ entries = <<p>>
          /\ m # s /\ m # p /\ s # p
          /\ Known(p) /\ oracle[p].importedIds = <<m, s>>
          /\ ~Known(m) /\ hasSupportedExt(m)
          /\ toRel(m) \in NodeIds(Output.nodes)
          /\ hasSupportedExt(p) /\ hasSupportedExt(s)
          /\ Len(Output.edges) = 2

(***************************************************************************)
(* The numbering of the nodes.                                             *)
(***************************************************************************)
\* q without the later occurrences of its elements
RECURSIVE FirstOccurrences(_)
FirstOccurrences(q) ==
    IF q = <<>> THEN <<>>
    ELSE LET before == FirstOccurrences(SubSeq(q, 1, Len(q) - 1))
         IN IF q[Len(q)] \in Range(before) THEN before
            ELSE Append(before, q[Len(q)])

\* the canonical ids of the supported modules in the order in which
\* traverse was first called for them
DiscoveryOrder ==
    LET supported == SelectSeq(calls, LAMBDA c : hasSupportedExt(c[2]))
    IN FirstOccurrences([n \in 1..Len(supported) |-> toRel(supported[n][2])])

Numbered(ids) == [n \in 1..Len(ids) |-> [id |-> ids[n], order |-> n]]

OrderIn(o, x) ==
    LET n == CHOOSE k \in 1..Len(o.nodes) : o.nodes[k].id = toRel(x)
    IN o.nodes[n].order

Qualifies(e) == e # <<>> /\ hasSupportedExt(e)

\* the modules walked under the entries listed before the i-th
WalkedBefore(i) == UNION {WalkedUnder(k) : k \in 1..(i - 1)}

\* C13: nodes are numbered in the order in which traverse first reaches
\* them: an entry's node is created when the loop arrives at the entry,
\* unless an earlier walk has discovered it, and within a walk the nodes
\* are numbered in depth-first discovery order.  So of two qualifying
\* entries with different canonical ids the earlier listed one has the
\* smaller order, unless the canonical id of the later listed one was
\* discovered under an entry listed before both.
C13_NodesInDiscoveryOrder ==
    /\ pc # "idle" => nodes = Numbered(DiscoveryOrder)
    /\ Completed =>
          /\ Output.nodes = Numbered(DiscoveryOrder)
          /\ \A i, j \in 1..Len(entries) :
                (/\ i < j
                 /\ Qualifies(entries[i]) /\ Qualifies(entries[j])
                 /\ toRel(entries[i]) # toRel(entries[j])
                 /\ toRel(entries[j]) \notin {toRel(m) : m \in WalkedBefore(i)})
                => OrderIn(Output, entries[i]) < OrderIn(Output, entries[j])

\* main.ts is listed first: its walk numbers a.ts, then U.TS below a.ts,
\* then b.ts, so that the entry b.ts comes last
C13_Witness ==
    /\ Completed
    /\ entries = <<Id_main, Id_css, Id_b>>
    /\ Output.nodes = Numbered(<<toRel(Id_main), toRel(Id_a), toRel(Id_upper),
                                 toRel(Id_b)>>)

\* C13 as stated: of two qualifying entries the earlier listed one always
\* has the smaller order.
C13_EntriesNumberedInListOrder ==
    Completed =>
        \A i, j \in 1..Len(entries) :
            (/\ i < j
             /\ Qualifies(entries[i]) /\ Qualifies(entries[j])
             /\ toRel(entries[i]) # toRel(entries[j]))
            => OrderIn(Output, entries[i]) < OrderIn(Output, entries[j])

(***************************************************************************)
(* Static imports before dynamic imports.                                  *)
(***************************************************************************)
\* the place in the import lists of the k-th traverse call on the stack st:
\* the item whose subtree is being walked, or the item it examines next
Cursor(st, k) == IF k < Len(st) THEN st[k].pos - 1 ELSE st[k].pos

\* the k-th call on the stack has left its static loop
PastStaticLoop(k) ==
    /\ stack[k].pos >= 1
    /\ Cursor(stack, k) > Len(oracle[stack[k].id].importedIds)

\* every static dependency of the k-th call has its node and its edge and
\* has been walked, and no call for it is pending above the k-th
StaticImportsDone(k) ==
    LET id == stack[k].id
        static == oracle[id].importedIds
    IN \A n \in 1..Len(static) :
          LET dep == static[n]
          IN ~shouldSkip(dep) =>
                /\ dep \in visited
                /\ \A j \in (k + 1)..Len(stack) : stack[j].id # dep
                /\ hasSupportedExt(dep) => toRel(dep) \in NodeIds(nodes)
                /\ (hasSupportedExt(id) /\ hasSupportedExt(dep)) =>
                      edgeKey(toRel(id), toRel(dep), "static") \in edgeKeySet

IsPrefix(p, q) == Len(p) <= Len(q) /\ SubSeq(q, 1, Len(p)) = p

\* C14: a traverse call is past its static loop, and stays so, before it
\* examines any dynamic dependency, and by then every static dependency
\* has its node, its edge and its whole walk behind it; nodes and edges are
\* only appended during the walks, so what the static loop created stands
\* before what the dynamic loop of the same call creates.
C14_StaticBeforeDynamic ==
    /\ [](pc = "walk" =>
             \A k \in 1..Len(stack) : PastStaticLoop(k) => StaticImportsDone(k))
    /\ [][(pc = "walk" /\ pc' = "walk") =>
             /\ IsPrefix(nodes, nodes') /\ IsPrefix(edges, edges')
             /\ \A k \in 1..Len(stack) :
                   k <= Len(stack') =>
                      /\ stack'[k].id = stack[k].id
                      /\ Cursor(stack', k) >= Cursor(stack, k)]_vars

\* the walk of a dynamic dependency is under way below a module whose
\* static dependency was walked before and has its node and edge
C14_Witness ==
    /\ pc = "walk"
    /\ Len(stack) = 2
    /\ PastStaticLoop(1)
    /\ LET info == oracle[stack[1].id]
       IN /\ Len(info.importedIds) = 1
          /\ info.dynamicallyImportedIds = <<stack[2].id>>
          /\ info.importedIds[1] \notin {stack[1].id, stack[2].id}
          /\ hasSupportedExt(stack[1].id)
          /\ hasSupportedExt(stack[2].id)
          /\ hasSupportedExt(info.importedIds[1])
          /\ Len(edges) = 2
          /\ edges[1].kind = "static" /\ edges[2].kind = "dynamic"

(***************************************************************************)
(* One traverse call per raw identifier and entry.                         *)
(***************************************************************************)
\* C15: within the walk of one entry traverse is called, and so the oracle
\* queried, at most once for each raw identifier; visited holds exactly the
\* identifiers traverse was called for under the current entry.
C15_OneCallPerIdAndEntry ==
    /\ NoRepeats(calls)
    /\ pc = "walk" => visited = WalkedUnder(entryIdx)
    /\ pc = "walk" =>
          /\ NoRepeats([k \in 1..Len(stack) |-> stack[k].id])
          /\ \A k \in 1..Len(stack) : stack[k].id \in visited

\* two modules import each other and each was called once
C15_Witness ==
    /\ Completed
    /\ Len(calls) = 2
    /\ \E a, b \in Walked :
          /\ a # b
          /\ b \in RawDepsOf(a) /\ a \in RawDepsOf(b)
          /\ ~shouldSkip(a) /\ ~shouldSkip(b)

(***************************************************************************)
(* The walk as a function of the entry list and the oracle's answers, with *)
(* the visited set either created per entry, as in generateBundle, or      *)
(* created once ahead of the entry loop.                                   *)
(***************************************************************************)
RECURSIVE walkModule(_, _)
RECURSIVE walkImports(_, _, _, _, _)

\* traverse(id) on the walk state w = [g, visited]
walkModule(w, id) ==
    LET info == oracle[id]
        entered == [w EXCEPT !.g = enterNode(w.g, id)]
    IN IF ~info.known THEN entered
       ELSE walkImports(walkImports(entered, id, info.importedIds, "static", 1),
                        id, info.dynamicallyImportedIds, "dynamic", 1)

\* an import loop of traverse(id) from its n-th item on
walkImports(w, id, deps, kind, n) ==
    IF n > Len(deps) THEN w
    ELSE LET dep == deps[n]
             recorded == [w EXCEPT !.g = recordDep(w.g, id, dep, kind)]
             walked == IF dep \in recorded.visited THEN recorded
                       ELSE walkModule([recorded EXCEPT !.visited = @ \cup {dep}],
                                       dep)
         IN IF shouldSkip(dep) THEN walkImports(w, id, deps, kind, n + 1)
            ELSE walkImports(walked, id, deps, kind, n + 1)

\* the loop over entries from the n-th entry on
RECURSIVE walkEntries(_, _, _)
walkEntries(w, n, sharedVisited) ==
    IF n > Len(entries) THEN w
    ELSE LET entry == entries[n]
             fresh == IF sharedVisited THEN w.visited ELSE {}
             started == [g |-> registerEntry(w.g, entry),
                         visited |-> fresh \cup {entry}]
         IN IF entry = <<>> THEN walkEntries(w, n + 1, sharedVisited)
            ELSE walkEntries(walkModule(started, entry), n + 1, sharedVisited)

\* the output of one generateBundle call
runOutput(sharedVisited) ==
    result(walkEntries([g |-> newGraph(Graph), visited |-> {}], 1,
                       sharedVisited).g)

\* C16: with one visited set shared by all entries the output is the same
\* as with a visited set per entry, which is the output generateBundle
\* writes.
C16_SharedVisitedSameOutput ==
    Completed =>
        /\ Output = runOutput(FALSE)
        /\ Output = runOutput(TRUE)

\* the second entry is a module already walked under the first, next to an
\* entry whose walk meets that module again
C16_Witness ==
    /\ Completed
    /\ Len(entries) = 2
    /\ entries[1] # entries[2]
    /\ entries[2] \in WalkedUnder(1)
    /\ Len(calls) >= 4
    /\ Len(Output.edges) >= 2

(***************************************************************************)
(* The skip policy and the oracle; completeness of the nodes; edge keys.   *)
(***************************************************************************)
\* C17: the oracle is never queried for an identifier that matches the
\* skip policy.
C17_NoSkippedIdIsQueried ==
    \A id \in DOMAIN oracle : ~shouldSkip(id)

\* C18: every dependency of a walked module that passes the extension
\* filter and is not skipped is a node of the output, whether or not the
\* importing module passes the filter; an importer that does not pass it is
\* the source of no edge.
C18_SupportedDependenciesAreNodes ==
    Completed =>
        \A m \in Walked :
            /\ \A dk \in DepsOf(m) :
                  hasSupportedExt(dk[1]) => toRel(dk[1]) \in NodeIds(Output.nodes)
            /\ ~hasSupportedExt(m) =>
                  \A n \in 1..Len(Output.edges) : Output.edges[n].source # toRel(m)

\* the only entry does not pass the filter; its two dependencies do and
\* are the two nodes of an output without edges
C18_Witness ==
    /\ Completed
    /\ Len(entries) = 1
    /\ ~hasSupportedExt(entries[1])
    /\ Known(entries[1])
    /\ \E a, b \in moduleIds :
          /\ a # b
          /\ hasSupportedExt(a) /\ hasSupportedExt(b)
          /\ oracle[entries[1]].importedIds = <<a>>
          /\ oracle[entries[1]].dynamicallyImportedIds = <<b>>
          /\ Output.nodes = Numbered(<<toRel(a), toRel(b)>>)
    /\ Output.edges = <<>>

\* C19: addEdge leaves out an edge only if the same triple of source,
\* target and kind is already recorded, also for ids that contain '|':
\* a triple whose key is in edgeKeySet is an element of edges.
C19_KeyIdentifiesTriple ==
    \A a, b \in moduleIds : \A kind \in {"static", "dynamic"} :
        edgeKey(toRel(a), toRel(b), kind) \in edgeKeySet
            => Edge(a, b, kind) \in Range(edges)

(***************************************************************************)
(* The tree-output variant of the plugin: generateBundle builds, for each  *)
(* entry, the tree collectDeps(entry) returns and writes the trees keyed   *)
(* by the entries' relative paths.  It has no extension filter.            *)
(***************************************************************************)
\* if (!id || visited.has(id) || id.includes('node_modules')) return null
returnsNull(id, seen) ==
    id = <<>> \/ id \in seen \/ includes(id, Str_node_modules)

ModuleNode(id, deps, order) == [id |-> id, deps |-> deps, order |-> order]

\* collectDeps returns node: the counter is post-incremented and the node
\* goes to the caller's depsNodes or, from the outermost call, to result
collectDepsReturn(node) ==
    /\ counter' = counter + 1
    /\ IF Len(stack) = 1
       THEN /\ stack' = <<>>
            /\ resultByEntry' =
                  (pathRelative(root, entries[entryIdx]) :> node) @@ resultByEntry
            /\ pc' = "loop"
            /\ entryIdx' = entryIdx + 1
       ELSE /\ stack' = [SubSeq(stack, 1, Len(stack) - 1)
                           EXCEPT ![Len(stack) - 1].depsNodes = Append(@, node)]
            /\ UNCHANGED <<resultByEntry, pc, entryIdx>>

\* generateBundle is called: the early return, or result is declared
TreeGenerateBundle ==
    /\ pc = "idle"
    /\ runs < MaxRuns
    /\ runs' = runs + 1
    /\ IF ~config.set
       THEN UNCHANGED <<pc, entryIdx, resultByEntry>>
       ELSE /\ pc' = "loop"
            /\ entryIdx' = 1
            /\ resultByEntry' = <<>>
    /\ UNCHANGED <<optionVars, oracle, config, graphVars, visited, stack, calls,
                   written, counter>>

\* one iteration of the for loop, up to the call collectDeps(entry)
TreeEntryStep ==
    /\ pc = "loop"
    /\ entryIdx <= Len(entries)
    /\ counter' = 1
    /\ LET entry == entries[entryIdx]
       IN IF returnsNull(entry, {})
          THEN /\ visited' = {}
               /\ entryIdx' = entryIdx + 1
               /\ UNCHANGED <<pc, stack>>
          ELSE /\ visited' = {entry}
               /\ stack' = <<[id |-> entry, pos |-> 0, depsNodes |-> <<>>]>>
               /\ pc' = "walk"
               /\ UNCHANGED entryIdx
    /\ UNCHANGED <<optionVars, oracle, config, runs, graphVars, calls, written,
                   resultByEntry>>

\* collectDeps(id) after visited.add(id): the oracle query
TreeCollectEnter ==
    /\ pc = "walk"
    /\ Top.pos = 0
    /\ \E info \in getModuleInfo(Top.id) :
          /\ oracle' = (Top.id :> info) @@ oracle
          /\ IF ~info.known
             THEN collectDepsReturn(ModuleNode(Top.id, <<>>, counter))
             ELSE /\ stack' = [stack EXCEPT ![Len(stack)].pos = 1]
                  /\ UNCHANGED <<pc, entryIdx, treeVars>>
    /\ UNCHANGED <<optionVars, config, runs, graphVars, visited, calls, written>>

\* one iteration of a forEach of collectDeps(id): the call collectDeps(dep)
collectDepsCall(dep) ==
    IF returnsNull(dep, visited)
    THEN /\ stack' = [stack EXCEPT ![Len(stack)].pos = @ + 1]
         /\ UNCHANGED visited
    ELSE /\ visited' = visited \cup {dep}
         /\ stack' = Append([stack EXCEPT ![Len(stack)].pos = @ + 1],
                            [id |-> dep, pos |-> 0, depsNodes |-> <<>>])

\* info.importedIds?.forEach
TreeStaticDep ==
    /\ pc = "walk"
    /\ Top.pos >= 1
    /\ Top.pos <= staticCount
    /\ collectDepsCall(Info.importedIds[Top.pos])
    /\ UNCHANGED <<optionVars, oracle, config, pc, runs, entryIdx, graphVars,
                   calls, written, treeVars>>

\* info.dynamicallyImportedIds?.forEach
TreeDynamicDep ==
    /\ pc = "walk"
    /\ Top.pos >= 1
    /\ Top.pos > staticCount
    /\ Top.pos <= staticCount + dynamicCount
    /\ collectDepsCall(Info.dynamicallyImportedIds[Top.pos - staticCount])
    /\ UNCHANGED <<optionVars, oracle, config, pc, runs, entryIdx, graphVars,
                   calls, written, treeVars>>

\* return { id, deps: depsNodes, order: counter++ }
TreeCollectReturn ==
    /\ pc = "walk"
    /\ Top.pos >= 1
    /\ Top.pos > staticCount + dynamicCount
    /\ collectDepsReturn(ModuleNode(Top.id, Top.depsNodes, counter))
    /\ UNCHANGED <<optionVars, oracle, config, runs, graphVars, visited, calls,
                   written>>

\* after the for loop: fs.writeFileSync of result
TreeWriteResult ==
    /\ pc = "loop"
    /\ entryIdx > Len(entries)
    /\ written' = Append(written, resultByEntry)
    /\ pc' = "idle"
    /\ UNCHANGED <<optionVars, oracle, config, runs, entryIdx, graphVars, visited,
                   stack, calls, treeVars>>

NextTree ==
    \/ ConfigResolved
    \/ TreeGenerateBundle
    \/ TreeEntryStep
    \/ TreeCollectEnter
    \/ TreeStaticDep
    \/ TreeDynamicDep
    \/ TreeCollectReturn
    \/ TreeWriteResult

TreeIds == {{Id_main, Id_a, x} : x \in {Id_b, Id_aQuery, Id_dep}}

InitTree == Init /\ extensions = <<>> /\ moduleIds \in TreeIds

SpecTree == InitTree /\ [][NextTree]_vars

(***************************************************************************)
(* The order values of the trees.                                          *)
(***************************************************************************)
RECURSIVE treeSize(_)
treeSize(t) ==
    LET RECURSIVE sum(_)
        sum(n) == IF n = 0 THEN 0 ELSE sum(n - 1) + treeSize(t.deps[n])
    IN 1 + sum(Len(t.deps))

RECURSIVE treeOrders(_)
treeOrders(t) == {t.order} \cup UNION {treeOrders(t.deps[n]) : n \in 1..Len(t.deps)}

\* C20: in the tree-output variant the order counter is global: in one
\* run the order values go on increasing from entry to entry, so no two
\* module nodes of the result, in one tree or in two, have the same order.
C20_TreeOrdersAllDistinct ==
    \A k \in 1..Len(written) :
        LET r == written[k]
        IN /\ \A e \in DOMAIN r : Cardinality(treeOrders(r[e])) = treeSize(r[e])
           /\ \A e1, e2 \in DOMAIN r :
                 e1 # e2 => treeOrders(r[e1]) \cap treeOrders(r[e2]) = {}

\* every tree is numbered on its own, from 1 to its size
TreesNumberedPerEntry ==
    \A k \in 1..Len(written) :
        \A e \in DOMAIN written[k] :
            treeOrders(written[k][e]) = 1..treeSize(written[k][e])

====
